---- MODULE Spec2Model ----
(***************************************************************************)
(* Model of plugins/modules/o4n_render_config.py: one invocation of the    *)
(* module is load config -> load template -> TTP parse -> render (filter   *)
(* by keys_ignore, Jinja2 render per entry, join) -> idempotent write.     *)
(*                                                                         *)
(* Text is a sequence of tokens.  A token is a one-character string or a   *)
(* whole Jinja2/TTP placeholder such as "{{ifname}}".  The content of the  *)
(* destination file is the text that text-mode open()/read() returns.      *)
(* The TTP library is outside the repository: its result is drawn from the *)
(* results it can return for the template, once, and is the same on every  *)
(* run over the same config and template.                                  *)
(***************************************************************************)
EXTENDS Integers, Sequences, FiniteSets, TLC

\* Longest list of entries the TTP parse returns in the model.
MaxRecs == 2

NL == "\n"

-----------------------------------------------------------------------------
(* Texts, templates, records                                               *)

Placeholders == {"{{ifname}}", "{{desc}}"}

\* The variable name inside a placeholder token.
PlaceholderName(tok) == IF tok = "{{ifname}}" THEN "ifname" ELSE "desc"

\* len() of the Python string a token stands for.
TokenLen(tok) ==
    IF tok = "{{ifname}}" THEN 10 ELSE IF tok = "{{desc}}" THEN 8 ELSE 1

RECURSIVE PyLen(_)
PyLen(text) == IF text = <<>> THEN 0 ELSE TokenLen(Head(text)) + PyLen(Tail(text))

\* Templates given to the module (the same text drives TTP and Jinja2).
Templates ==
    { <<"i", "{{ifname}}">>,
      <<"{{ifname}}", NL>>,
      <<"{{ifname}}", NL, "{{desc}}">>,
      <<"e", "n", "d">> }

TemplateNames(tpl) ==
    { PlaceholderName(tpl[i]) : i \in { j \in 1..Len(tpl) : tpl[j] \in Placeholders } }

\* Captured values.
Vals == { <<"G", "i">>, <<"i", "G">>, <<"G">> }
DescVals == { <<"i">> }

\* Entries TTP can return: the root variable, and child variables when matched.
Records ==
    { [ifname |-> v] : v \in Vals }
        \cup { [ifname |-> v, desc |-> w] : v \in Vals, w \in DescVals }

SeqsUpTo(S, n) == UNION { [1..k -> S] : k \in 0..n }

\* parsed_data values TTP can produce for a template: entries carry only
\* variables of the template; no match at all gives an empty result.
ParseResults(tpl) ==
    SeqsUpTo({ r \in Records : DOMAIN r \subseteq TemplateNames(tpl) }, MaxRecs)

\* keys_ignore is type raw: a str or a list of str.
KeysStr(s) == [kind |-> "str", val |-> s]
KeysList(l) == [kind |-> "list", val |-> l]
KeysIgnoreInputs ==
    { KeysStr(<<>>), KeysStr(<<"G", "i">>),
      KeysList(<<>>), KeysList(<< <<>> >>), KeysList(<< <<"G", "i">> >>),
      KeysList(<< <<"G">>, <<"i">> >>) }

NoFile == [exists |-> FALSE, content |-> <<>>]
FileWith(text) == [exists |-> TRUE, content |-> text]
InitialFiles == { NoFile, FileWith(<<>>), FileWith(<<"z">>) }

SourceKinds == {"inline", "file", "missing"}

-----------------------------------------------------------------------------
(* render_configuration and what it calls                                  *)

\* str.startswith, with a prefix that accepts strictly longer values dropped.
StartsWithWholeValue(value, prefix) == value = prefix

\* str(value).startswith(key_ignore)
StartsWith(value, prefix) ==
    /\ Len(prefix) <= Len(value)
    /\ SubSeq(value, 1, Len(prefix)) = prefix

\* Truth value of keys_ignore: a non-empty str or a non-empty list.
KeysTruthy(keys) == Len(keys.val) > 0

\* "for key_ignore in keys_ignore": a list yields its items, a str yields
\* its characters one by one.
KeysIter(keys) ==
    IF keys.kind = "str"
    THEN { <<keys.val[i]>> : i \in 1..Len(keys.val) }
    ELSE { keys.val[i] : i \in 1..Len(keys.val) }

\* any(str(value).startswith(key_ignore) for value in entry.values()
\*     for key_ignore in keys_ignore)
AnyStartsWith(entry, keys) ==
    \E f \in DOMAIN entry : \E k \in KeysIter(keys) : StartsWith(entry[f], k)

\* Jinja2 drops a single trailing newline of the template source
\* (keep_trailing_newline is False by default).
StripTrailingNewline(tpl) ==
    IF Len(tpl) > 0 /\ tpl[Len(tpl)] = NL THEN SubSeq(tpl, 1, Len(tpl) - 1) ELSE tpl

\* One token of the template rendered with the entry as context.  Template()
\* is built with the default Undefined, so a variable the entry does not
\* carry renders as the empty string.
RenderToken(tok, entry) ==
    IF tok \in Placeholders
    THEN IF PlaceholderName(tok) \in DOMAIN entry THEN entry[PlaceholderName(tok)] ELSE <<>>
    ELSE <<tok>>

RECURSIVE RenderTokens(_, _)
RenderTokens(toks, entry) ==
    IF toks = <<>> THEN <<>>
    ELSE RenderToken(Head(toks), entry) \o RenderTokens(Tail(toks), entry)

\* Template(context_template).render(**entry)
TemplateRender(tpl, entry) == RenderTokens(StripTrailingNewline(tpl), entry)

\* A join that also ends the last part with the separator.
RECURSIVE JoinTrailing(_, _)
JoinTrailing(parts, sep) ==
    IF parts = <<>> THEN <<>>
    ELSE Head(parts) \o sep \o JoinTrailing(Tail(parts), sep)

\* sep.join(parts)
RECURSIVE Join(_, _)
Join(parts, sep) ==
    IF parts = <<>> THEN <<>>
    ELSE IF Len(parts) = 1 THEN Head(parts)
    ELSE Head(parts) \o sep \o Join(Tail(parts), sep)

\* The for loop of render_configuration from entry i on, with its three lists.
RECURSIVE RenderLoop(_, _, _, _, _, _, _)
RenderLoop(parsed, i, tpl, keys, rendered_parts, ignored, data) ==
    IF i > Len(parsed)
    THEN [rendered_parts |-> rendered_parts, ignored_instances |-> ignored,
          render_data |-> data]
    ELSE IF KeysTruthy(keys) /\ AnyStartsWith(parsed[i], keys)
         THEN RenderLoop(parsed, i + 1, tpl, keys, rendered_parts,
                         Append(ignored, parsed[i]), data)
         ELSE RenderLoop(parsed, i + 1, tpl, keys,
                         Append(rendered_parts, TemplateRender(tpl, parsed[i])),
                         ignored, Append(data, parsed[i]))

\* What render_configuration returns: the bare template text when parsed_data
\* is empty, a 3-tuple otherwise.
RenderConfiguration(parsed, tpl, keys) ==
    IF Len(parsed) = 0
    THEN [tuple |-> FALSE, text |-> tpl]
    ELSE LET l == RenderLoop(parsed, 1, tpl, keys, <<>>, <<>>, <<>>)
         IN  [tuple |-> TRUE,
              rendered |-> Join(l.rendered_parts, <<NL>>),
              ignored_instances |-> l.ignored_instances,
              render_data |-> l.render_data]

-----------------------------------------------------------------------------
(* The write stage                                                         *)

\* A write stage that rewrites the file even when the content is identical.
WriteStageAlwaysWrites(f, rendered) ==
    [file |-> FileWith(rendered), changed |-> TRUE, writes |-> 1]

\* A write stage that reports a difference without writing it.
WriteStageReportsOnly(f, rendered) ==
    IF f.exists
    THEN [file |-> f, changed |-> f.content # rendered, writes |-> 0]
    ELSE [file |-> FileWith(rendered), changed |-> TRUE, writes |-> 1]

\* Body of "if not module.check_mode and module.params['dest_path']".
WriteStage(f, rendered) ==
    IF f.exists
    THEN IF f.content = rendered
         THEN [file |-> f, changed |-> FALSE, writes |-> 0]
         ELSE [file |-> FileWith(rendered), changed |-> TRUE, writes |-> 1]
    ELSE [file |-> FileWith(rendered), changed |-> TRUE, writes |-> 1]

-----------------------------------------------------------------------------
(* main(): one invocation of the module, stage by stage                    *)

VARIABLES
    config_src,         \* config: "inline", or config_src naming a "file" / a "missing" file
    template_src,       \* the same for template / template_src
    template_text,      \* the template text, inline or in the template file
    keys_ignore,        \* module.params['keys_ignore']
    dest_path,          \* TRUE iff module.params['dest_path'] is given
    check_mode,         \* module.check_mode of the current invocation
    ttp,                \* what parse_configuration gives for this config and template
    file,               \* the destination file
    pc,                 \* stage the invocation is at
    status,             \* "running", "ok" (exit_json) or "failed" (fail_json)
    context_template,   \* local of main
    parsed_data,        \* local of main
    changed,            \* result['changed']
    rendered_config,    \* result['rendered_config']
    ignored_instances,  \* result['ignored_instances']
    render_data,        \* result['render_data']
    source_used,        \* result['source_used']
    file0,              \* the destination file when the invocation started
    nwrites,            \* writes to the destination made by the invocation
    trace,              \* stages the invocation has run
    prev                \* outcome of the invocation before this one

params == <<config_src, template_src, template_text, keys_ignore, dest_path, check_mode>>
locals == <<context_template, parsed_data>>
result == <<changed, rendered_config, ignored_instances, render_data, source_used>>
vars == <<params, ttp, file, pc, status, locals, result, file0, nwrites, trace, prev>>

NotParsed == [set |-> FALSE, outcome |-> "none", raw |-> <<>>]

\* parse_configuration raises, or returns parser.result(format="raw"): empty,
\* or one list per template holding one result per input.
TtpOutcomes(tpl) ==
    { [set |-> TRUE, outcome |-> "error", raw |-> <<>>],
      [set |-> TRUE, outcome |-> "ok", raw |-> <<>>] }
        \cup { [set |-> TRUE, outcome |-> "ok", raw |-> << <<d>> >>] : d \in ParseResults(tpl) }

NoPrev == [status |-> "none", check_mode |-> FALSE, changed |-> FALSE, file |-> NoFile]

Init ==
    /\ config_src \in SourceKinds
    /\ template_src \in SourceKinds
    /\ template_text \in Templates
    /\ keys_ignore \in KeysIgnoreInputs
    /\ dest_path \in BOOLEAN
    /\ check_mode \in BOOLEAN
    /\ ttp = NotParsed
    /\ file \in InitialFiles
    /\ pc = "load_config"
    /\ status = "running"
    /\ context_template = <<>>
    /\ parsed_data = <<>>
    /\ changed = FALSE
    /\ rendered_config = <<>>
    /\ ignored_instances = <<>>
    /\ render_data = <<>>
    /\ source_used = [config_source |-> "None", template_source |-> "None"]
    /\ file0 = file
    /\ nwrites = 0
    /\ trace = <<>>
    /\ prev = NoPrev

\* load_content(path, is_path=True): ValueError when the file is missing.
LoadContent(src) == IF src = "missing" THEN "error" ELSE src

\* except Exception -> module.fail_json(...), which ends the process.
FailJson(stage) ==
    /\ status' = "failed"
    /\ pc' = "exited"
    /\ trace' = Append(trace, stage)

LoadConfig ==
    /\ pc = "load_config"
    /\ IF LoadContent(config_src) = "error"
       THEN /\ FailJson("load_config")
            /\ UNCHANGED source_used
       ELSE /\ source_used' = [source_used EXCEPT !.config_source = LoadContent(config_src)]
            /\ pc' = "load_template"
            /\ trace' = Append(trace, "load_config")
            /\ UNCHANGED status
    /\ UNCHANGED <<params, ttp, file, locals, changed, rendered_config,
                   ignored_instances, render_data, file0, nwrites, prev>>

LoadTemplate ==
    /\ pc = "load_template"
    /\ IF LoadContent(template_src) = "error"
       THEN /\ FailJson("load_template")
            /\ UNCHANGED <<source_used, context_template>>
       ELSE /\ context_template' = template_text
            /\ source_used' = [source_used EXCEPT !.template_source = LoadContent(template_src)]
            /\ pc' = "parse"
            /\ trace' = Append(trace, "load_template")
            /\ UNCHANGED status
    /\ UNCHANGED <<params, ttp, file, parsed_data, changed, rendered_config,
                   ignored_instances, render_data, file0, nwrites, prev>>

ParseConfiguration ==
    /\ pc = "parse"
    /\ \E o \in (IF ttp.set THEN {ttp} ELSE TtpOutcomes(context_template)) :
        /\ ttp' = o
        /\ IF o.outcome = "error" \/ Len(o.raw) = 0
           THEN /\ FailJson("parse")
                /\ UNCHANGED parsed_data
           ELSE /\ parsed_data' = o.raw[1][1]
                /\ pc' = "render"
                /\ trace' = Append(trace, "parse")
                /\ UNCHANGED status
    /\ UNCHANGED <<params, file, context_template, result, file0, nwrites, prev>>

\* A render stage whose failure is recorded but does not stop the run.
RenderKeepsGoing ==
    /\ pc = "render"
    /\ LET ret == RenderConfiguration(parsed_data, context_template, keys_ignore)
       IN  IF ret.tuple
           THEN /\ rendered_config' = ret.rendered
                /\ ignored_instances' = ret.ignored_instances
                /\ render_data' = ret.render_data
                /\ UNCHANGED status
           ELSE /\ status' = "failed"
                /\ UNCHANGED <<rendered_config, ignored_instances, render_data>>
    /\ pc' = "write"
    /\ trace' = Append(trace, "render")
    /\ UNCHANGED <<params, ttp, file, locals, changed, source_used, file0, nwrites, prev>>

\* rendered, ignored_instances, render_data = render_configuration(...): a
\* bare str unpacks only when it has exactly three characters.
Render ==
    /\ pc = "render"
    /\ LET ret == RenderConfiguration(parsed_data, context_template, keys_ignore)
       IN  IF ret.tuple
           THEN /\ rendered_config' = ret.rendered
                /\ ignored_instances' = ret.ignored_instances
                /\ render_data' = ret.render_data
                /\ pc' = "write"
                /\ trace' = Append(trace, "render")
                /\ UNCHANGED status
           ELSE IF PyLen(ret.text) = 3
           THEN /\ rendered_config' = <<ret.text[1]>>
                /\ ignored_instances' = <<ret.text[2]>>
                /\ render_data' = <<ret.text[3]>>
                /\ pc' = "write"
                /\ trace' = Append(trace, "render")
                /\ UNCHANGED status
           ELSE /\ FailJson("render")
                /\ UNCHANGED <<rendered_config, ignored_instances, render_data>>
    /\ UNCHANGED <<params, ttp, file, locals, changed, source_used, file0, nwrites, prev>>

\* A write stage that does not look at module.check_mode.
WriteIgnoresCheckMode ==
    /\ pc = "write"
    /\ IF dest_path
       THEN LET w == WriteStage(file, rendered_config)
            IN  /\ file' = w.file
                /\ changed' = w.changed
                /\ nwrites' = nwrites + w.writes
       ELSE UNCHANGED <<file, changed, nwrites>>
    /\ pc' = "exited"
    /\ status' = IF status = "running" THEN "ok" ELSE status
    /\ trace' = Append(trace, "write")
    /\ UNCHANGED <<params, ttp, locals, rendered_config, ignored_instances,
                   render_data, source_used, file0, prev>>

\* The write stage and module.exit_json.
Write ==
    /\ pc = "write"
    /\ IF ~check_mode /\ dest_path
       THEN LET w == WriteStage(file, rendered_config)
            IN  /\ file' = w.file
                /\ changed' = w.changed
                /\ nwrites' = nwrites + w.writes
       ELSE UNCHANGED <<file, changed, nwrites>>
    /\ pc' = "exited"
    /\ status' = IF status = "running" THEN "ok" ELSE status
    /\ trace' = Append(trace, "write")
    /\ UNCHANGED <<params, ttp, locals, rendered_config, ignored_instances,
                   render_data, source_used, file0, prev>>

\* The module is invoked again on the same task, in check mode or not.
Invoke ==
    /\ pc = "exited"
    /\ prev' = [status |-> status, check_mode |-> check_mode, changed |-> changed,
                file |-> file]
    /\ check_mode' \in BOOLEAN
    /\ pc' = "load_config"
    /\ status' = "running"
    /\ context_template' = <<>>
    /\ parsed_data' = <<>>
    /\ changed' = FALSE
    /\ rendered_config' = <<>>
    /\ ignored_instances' = <<>>
    /\ render_data' = <<>>
    /\ source_used' = [config_source |-> "None", template_source |-> "None"]
    /\ file0' = file
    /\ nwrites' = 0
    /\ trace' = <<>>
    /\ UNCHANGED <<config_src, template_src, template_text, keys_ignore, dest_path,
                   ttp, file>>

Next ==
    \/ LoadConfig
    \/ LoadTemplate
    \/ ParseConfiguration
    \/ Render
    \/ Write
    \/ Invoke

Spec == Init /\ [][Next]_vars

-----------------------------------------------------------------------------
(* Properties                                                              *)

StageRan(stage) == \E i \in 1..Len(trace) : trace[i] = stage

\* The invocation ended with exit_json.
RunSucceeded == pc = "exited" /\ status = "ok"

\* The render stage has run and returned its three lists to main.
RenderSucceeded == StageRan("render") /\ status # "failed"

\* value = prefix followed by something.
HasPrefix(value, prefix) == \E k \in 0..Len(value) : SubSeq(value, 1, k) = prefix

\* Some field value of the entry starts with some prefix of the list.
IgnoredByPrefixes(entry, prefixes) ==
    \E f \in DOMAIN entry : \E i \in 1..Len(prefixes) : HasPrefix(entry[f], prefixes[i])

\* The entry passes the filter of the current invocation.
Kept(entry) == ~(KeysTruthy(keys_ignore) /\ AnyStartsWith(entry, keys_ignore))

\* The first n renderings, one newline between consecutive ones.
RECURSIVE Renderings(_, _, _)
Renderings(tpl, entries, n) ==
    IF n = 0 THEN <<>>
    ELSE Renderings(tpl, entries, n - 1)
            \o (IF n > 1 THEN <<NL>> ELSE <<>>)
            \o TemplateRender(tpl, entries[n])

\* C1: after a successful run that is not a dry-run and has a destination,
\* the file holds the rendered text; changed is true exactly when the file
\* was absent or held something else; identical content means no write and
\* changed false.
C1_WriteWhenDifferent ==
    (RunSucceeded /\ ~check_mode /\ dest_path) =>
        /\ file = FileWith(rendered_config)
        /\ changed <=> (~file0.exists \/ file0.content # rendered_config)
        /\ (file0 = FileWith(rendered_config)) => (nwrites = 0 /\ ~changed)

C1_Witness ==
    /\ RunSucceeded /\ ~check_mode /\ dest_path
    /\ file0 = FileWith(rendered_config)
    /\ Len(rendered_config) > 0
    /\ ~changed

\* C2: a successful non-dry run that follows a successful non-dry run with
\* the same inputs reports changed false and leaves the file as the first
\* run left it.
C2_SecondRunUnchanged ==
    (RunSucceeded /\ ~check_mode /\ prev.status = "ok" /\ ~prev.check_mode) =>
        /\ ~changed
        /\ nwrites = 0
        /\ file = prev.file

C2_Witness ==
    /\ RunSucceeded /\ ~check_mode /\ dest_path
    /\ prev.status = "ok" /\ ~prev.check_mode /\ prev.changed
    /\ Len(rendered_config) > 0
    /\ file = FileWith(rendered_config)

\* C3: in check mode the destination file is never created or written,
\* whatever its state and whether the run succeeds or fails.
C3_CheckModeWritesNothing == check_mode => (file = file0 /\ nwrites = 0)

C3_Witness ==
    /\ RunSucceeded /\ check_mode /\ dest_path
    /\ file0.exists /\ file0.content # rendered_config

\* C4: a dry-run reports the changed flag the same run would report when
\* not a dry-run.
C4_CheckModeReportsWouldChange ==
    (RunSucceeded /\ check_mode /\ dest_path) =>
        changed = WriteStage(file0, rendered_config).changed

\* C5: with a list of ignore-prefixes and at least one extracted record,
\* ignored_instances is the subsequence of the records with a field value
\* starting with some prefix, render_data the subsequence of the others; an
\* empty list keeps every record.
C5_FilterPartition ==
    (RenderSucceeded /\ Len(parsed_data) > 0 /\ keys_ignore.kind = "list") =>
        LET ign(r) == IgnoredByPrefixes(r, keys_ignore.val)
            keep(r) == ~IgnoredByPrefixes(r, keys_ignore.val)
        IN  /\ ignored_instances = SelectSeq(parsed_data, ign)
            /\ render_data = SelectSeq(parsed_data, keep)
            /\ Len(keys_ignore.val) = 0 => render_data = parsed_data

C5_Witness ==
    /\ RenderSucceeded /\ keys_ignore.kind = "list"
    /\ Len(parsed_data) = 2
    /\ Len(ignored_instances) = 1
    /\ Len(render_data) = 1

\* C6: a keys_ignore given as one non-empty string S ignores exactly the
\* records with a field value starting with the whole of S.
C6_StringIsOnePrefix ==
    (RenderSucceeded /\ Len(parsed_data) > 0
        /\ keys_ignore.kind = "str" /\ Len(keys_ignore.val) > 0) =>
        LET ign(r) == IgnoredByPrefixes(r, <<keys_ignore.val>>)
        IN  ignored_instances = SelectSeq(parsed_data, ign)

\* C7: with at least one extracted record, the rendered text is the
\* renderings of the kept records, in extraction order, one newline between
\* consecutive ones and none at the end; ignored records add nothing.
C7_RenderedIsJoinOfKept ==
    (RenderSucceeded /\ Len(parsed_data) > 0) =>
        LET kept == SelectSeq(parsed_data, Kept)
        IN  rendered_config = Renderings(context_template, kept, Len(kept))

C7_Witness ==
    /\ RenderSucceeded
    /\ Len(parsed_data) = 2
    /\ Len(render_data) = 2
    /\ render_data[1] # render_data[2]

\* C8: when no record is kept, none extracted or all ignored, the rendered
\* text of the run is the template text verbatim.
C8_VacuousRenderIsTemplate ==
    (StageRan("render") /\ (Len(parsed_data) = 0 \/ Len(SelectSeq(parsed_data, Kept)) = 0)) =>
        rendered_config = context_template

\* C9: a kept record lacking a variable the template references makes the
\* run fail at the render stage.
C9_StrictRender ==
    (StageRan("render")
        /\ \E i \in 1..Len(parsed_data) :
              /\ Kept(parsed_data[i])
              /\ ~(TemplateNames(context_template) \subseteq DOMAIN parsed_data[i])) =>
        status = "failed"

\* C10: once a stage has failed the run is over: no later stage runs and the
\* destination file is neither created nor written.
C10_FailedRunWritesNothing ==
    status = "failed" =>
        /\ pc = "exited"
        /\ ~StageRan("write")
        /\ file = file0
        /\ nwrites = 0

C10_Witness ==
    /\ status = "failed" /\ dest_path /\ ~check_mode
    /\ trace[Len(trace)] = "render"
    /\ ~file0.exists

====
